---- MODULE Spec2Model ----
(***************************************************************************)
(* The job orchestrator of the clip pipeline (VideoProcessingService) and  *)
(* the worker it talks to (VideoProcessingWorker), as a state machine.     *)
(*                                                                         *)
(* Identifiers are triples <<kind, number, name>> so that a job id, a step *)
(* id and a clip id can be compared with each other, as the strings of the *)
(* source are:                                                             *)
(*   job id   `job_${Date.now()}_${random}`      <<"job", n, "">>          *)
(*   step id  'detect-scenes', 'generate-clips'  <<"step", 0, name>>       *)
(*   clip id  `clip_${scene.id}_${preset.id}`    <<"clip", s, preset>>     *)
(* where scene s stands for the scene whose id is `scene_${s}`.            *)
(***************************************************************************)
EXTENDS Integers, Sequences, FiniteSets, Bags, TLC

\* ---------------------------------------------------------------- bounds
\* Scene ids are scene_1 .. scene_MaxScenes.
MaxScenes == 1
\* The preset catalogue is cut to its first NumPresets entries.
NumPresets == 2
\* Clip tasks still in flight at which generateClipsForJob is called again.
MaxClipBacklog == 0
\* Messages of the worker that wait to be dispatched.
MaxQueue == 1
\* Boundaries the analyzers report for one video, all analyzers together.
MaxRaw == 2

\* ------------------------------------------------------------ identifiers
JobIds == {<<"job", 1, "">>}
DetectScenesId == <<"step", 0, "detect-scenes">>
GenerateClipsId == <<"step", 0, "generate-clips">>
InitId == <<"init", 0, "">>
SceneIds == 1..MaxScenes
ClipId(s, p) == <<"clip", s, p>>
\* stepId.startsWith('clip_')
IsClipId(id) == id[1] = "clip"

NoError == "undefined"
\* A progress value the worker reports for scene detection.
ProgressValues == {50}

PresetCatalog ==
  <<"tiktok", "instagram-reels", "instagram-post", "youtube-shorts", "linkedin", "twitter">>
getPlatformPresets == SubSeq(PresetCatalog, 1, NumPresets)
AllPresets == {getPlatformPresets[i] : i \in 1..Len(getPlatformPresets)}
\* Platform lists a caller may pass: any presets of the catalogue, and lists
\* that name a platform the catalogue does not have.
PlatformLists == (SUBSET AllPresets) \cup {{"facebook"}, AllPresets \cup {"facebook"}}

\* ------------------------------------------------------------------ state
VARIABLES
  worker,               \* "alive" | "null"            (this.worker)
  workerReady,          \* this.workerReady
  workerReadyResolved,  \* this.workerReadyResolved
  jobs,                 \* keys of this.jobs
  jobObjs,              \* the job objects, by id (they outlive their map entry)
  fetches,              \* pending fetch(videoFile.url) promises (a bag)
  conts,                \* handleStepComplete calls suspended at an await
  atWorker,             \* requests the worker is processing (a bag)
  fromWorker,           \* messages posted by the worker, not yet dispatched
  workerReadyPromise,   \* "pending" | "fulfilled" | "rejected"
  timer,                \* the handshake timer that is armed: 1, 2, or 0 for none
  processVideoError,    \* the error the last processVideo call threw
  call,                 \* a call outside the orchestrator: its input, position and result
  videoProcessor        \* the VideoProcessingModule instance

\* State outside the orchestrator's fields; the orchestrator's operations
\* leave it alone.
elsewhere == <<timer, processVideoError, call, videoProcessor>>
\* The orchestrator's state, which a call of a pure function leaves alone.
orchestrator == <<worker, workerReady, workerReadyResolved, jobs, jobObjs, fetches, conts,
                  atWorker, fromWorker, workerReadyPromise, timer, processVideoError>>

vars == <<worker, workerReady, workerReadyResolved, jobs, jobObjs, fetches,
          conts, atWorker, fromWorker, workerReadyPromise, elsewhere>>

\* ---------------------------------------------------------------- helpers
RemoveAt(s, i) == SubSeq(s, 1, i - 1) \o SubSeq(s, i + 1, Len(s))

\* The bag of the elements of a sequence.
BagOfSeq(s) ==
  [x \in {s[i] : i \in 1..Len(s)} |-> Cardinality({i \in 1..Len(s) : s[i] = x})]
One(x) == SetToBag({x})

RECURSIVE SortedSeq(_)
SortedSeq(S) ==
  IF S = {} THEN <<>>
  ELSE LET m == CHOOSE x \in S : \A y \in S : x <= y
       IN <<m>> \o SortedSeq(S \ {m})

\* array.find(pred): index of the first match, 0 when there is none
FindStep(steps, id) ==
  IF \E i \in 1..Len(steps) : steps[i].id = id
  THEN CHOOSE i \in 1..Len(steps) :
         steps[i].id = id /\ \A k \in 1..(i - 1) : steps[k].id # id
  ELSE 0

FindStepWithStatus(steps, st) ==
  IF \E i \in 1..Len(steps) : steps[i].status = st
  THEN CHOOSE i \in 1..Len(steps) :
         steps[i].status = st /\ \A k \in 1..(i - 1) : steps[k].status # st
  ELSE 0

FindClip(clips, id) ==
  IF \E i \in 1..Len(clips) : clips[i].id = id
  THEN CHOOSE i \in 1..Len(clips) :
         clips[i].id = id /\ \A k \in 1..(i - 1) : clips[k].id # id
  ELSE 0

CountSteps(steps, st) == Cardinality({i \in 1..Len(steps) : steps[i].status = st})
CountClips(clips, st) == Cardinality({i \in 1..Len(clips) : clips[i].status = st})

\* An effect of an orchestrator routine: the job object after it, and the
\* fetches it started and the messages it posted to the worker directly.
Effect(job, newFetches, newPosts) ==
  [job |-> job, fetches |-> newFetches, posts |-> newPosts]

\* ------------------------------------------------------------ processVideo
NewJob(id) ==
  [ id |-> id,
    status |-> "queued",
    steps |-> << [id |-> DetectScenesId, progress |-> 0, status |-> "pending", error |-> NoError],
                 [id |-> GenerateClipsId, progress |-> 0, status |-> "pending", error |-> NoError] >>,
    scenes |-> <<>>,
    clips |-> <<>>,
    progress |-> 0,
    error |-> NoError,
    currentStep |-> NoError ]

\* -------------------------------------------------------- updateJobProgress
updateJobProgress(job, stepId, progress) ==
  LET i == FindStep(job.steps, stepId)
      steps1 == IF i # 0
                THEN [job.steps EXCEPT ![i].progress = progress, ![i].status = "active"]
                ELSE job.steps
      totalSteps == Len(steps1)
      completedSteps == CountSteps(steps1, "completed")
      a == FindStepWithStatus(steps1, "active")
  IN [job EXCEPT
        !.steps = steps1,
        !.progress = IF a # 0
                     THEN (completedSteps * 100 + steps1[a].progress) \div totalSteps
                     ELSE (completedSteps * 100) \div totalSteps]

\* ---------------------------------------------------------- handleStepError
handleStepError(job, stepId, err) ==
  LET i == FindStep(job.steps, stepId)
      steps1 == IF i # 0
                THEN [job.steps EXCEPT ![i].status = "failed", ![i].error = err]
                ELSE job.steps
  IN [job EXCEPT !.steps = steps1, !.status = "failed", !.error = err]

\* ------------------------------------------------------------ clip fan-out
NewClip(s, p) ==
  [id |-> ClipId(s, p), sceneId |-> s, platform |-> p, status |-> "processing", progress |-> 0]

\* job.scenes.forEach(scene => platforms.forEach(preset => job.clips.push(...)))
FanOut(scenes, presets) ==
  IF Len(scenes) = 0 \/ Len(presets) = 0 THEN <<>>
  ELSE [k \in 1..(Len(scenes) * Len(presets)) |->
          NewClip(scenes[((k - 1) \div Len(presets)) + 1],
                  presets[((k - 1) % Len(presets)) + 1])]

ClipFetch(job, clip) ==
  [kind |-> "generateClip", job |-> job.id, jobId |-> clip.id, stepId |-> clip.id, hasVideo |-> TRUE]

ClipPost(clip) ==
  [kind |-> "generateClip", jobId |-> clip.id, stepId |-> clip.id, hasVideo |-> FALSE]

\* ---------------------------------------------- generateClipsForAllPlatforms
generateClipsForAllPlatforms(job) ==
  IF Len(job.scenes) = 0
  THEN LET i == FindStep(job.steps, GenerateClipsId)
           steps1 == IF i # 0
                     THEN [job.steps EXCEPT ![i].status = "completed", ![i].progress = 100]
                     ELSE job.steps
       IN Effect([job EXCEPT !.steps = steps1, !.status = "completed", !.progress = 100],
                 <<>>, <<>>)
  ELSE LET new == FanOut(job.scenes, getPlatformPresets)
           i == FindStep(job.steps, GenerateClipsId)
           steps1 == IF i # 0
                     THEN [job.steps EXCEPT ![i].status = "active", ![i].progress = 0]
                     ELSE job.steps
       IN Effect([job EXCEPT !.clips = job.clips \o new, !.steps = steps1],
                 IF worker # "null" THEN [k \in 1..Len(new) |-> ClipFetch(job, new[k])] ELSE <<>>,
                 <<>>)

\* --------------------------------------------------------------- executeStep
executeStep(job, i) ==
  LET step == job.steps[i] IN
  IF worker = "null" \/ ~workerReady
  THEN Effect(handleStepError(job, step.id, "Worker not available"), <<>>, <<>>)
  ELSE IF step.id = DetectScenesId
  THEN Effect(job,
              << [kind |-> "detectScenes", job |-> job.id, jobId |-> job.id,
                  stepId |-> step.id, hasVideo |-> TRUE] >>,
              <<>>)
  ELSE IF step.id = GenerateClipsId
  THEN generateClipsForAllPlatforms(job)
  ELSE Effect(handleStepError(job, step.id, "Unknown step"), <<>>, <<>>)

\* ------------------------------------------------------------- startNextStep
\* Mutant: the last pending step is started instead of the first.
startNextStep_LastPending(job) ==
  LET P == {i \in 1..Len(job.steps) : job.steps[i].status = "pending"} IN
  IF P = {} THEN Effect(job, <<>>, <<>>)
  ELSE LET i == CHOOSE x \in P : \A y \in P : y <= x
       IN executeStep([job EXCEPT !.steps[i].status = "active",
                                  !.currentStep = job.steps[i].id], i)

startNextStep(job) ==
  LET i == FindStepWithStatus(job.steps, "pending") IN
  IF i = 0 THEN Effect(job, <<>>, <<>>)
  ELSE executeStep([job EXCEPT !.steps[i].status = "active",
                               !.currentStep = job.steps[i].id], i)

\* ---------------------------------------------------------- handleStepComplete
\* A scene list is a function from the ids of its scenes to whether the scene
\* passes the validity filter (numeric, startTime >= 0, endTime > startTime,
\* duration > 0).
ValidScenes(scenes) == SortedSeq({s \in DOMAIN scenes : scenes[s]})

\* The part that runs before the first await: the step is marked completed.
handleStepCompleteSync(job, stepId) ==
  LET i == FindStep(job.steps, stepId) IN
  IF i # 0
  THEN [job EXCEPT !.steps[i].status = "completed", !.steps[i].progress = 100]
  ELSE job

\* Whether the call waits for a thumbnail to be drawn (an await that other
\* events can overtake): thumbnails of the valid scenes, or of the clip.
handleStepCompleteAwaits(job, msg) ==
  \/ msg.hasScenes /\ Len(ValidScenes(msg.scenes)) > 0
  \/ msg.hasClip /\ FindClip(job.clips, msg.stepId) # 0

\* The part from the scene list on.  thumbOk: the clip's thumbnail was drawn;
\* when it was not, the rejection ends the call where it stands.
handleStepCompleteRest(job, msg, thumbOk) ==
  LET j1 == IF msg.hasScenes THEN [job EXCEPT !.scenes = ValidScenes(msg.scenes)] ELSE job
      c == IF msg.hasClip THEN FindClip(j1.clips, msg.stepId) ELSE 0
  IN
  IF c # 0 /\ ~thumbOk THEN Effect(j1, <<>>, <<>>)
  ELSE
  LET j2 == IF c # 0
            THEN [j1 EXCEPT !.clips[c].status = "completed", !.clips[c].progress = 100]
            ELSE j1
      g == FindStep(j2.steps, GenerateClipsId)
      allClipsComplete == \A k \in 1..Len(j2.clips) : j2.clips[k].status = "completed"
      j3 == IF IsClipId(msg.stepId) /\ allClipsComplete /\ Len(j2.clips) > 0 /\ g # 0
            THEN [j2 EXCEPT !.steps[g].status = "completed", !.steps[g].progress = 100]
            ELSE j2
      allMainStepsComplete == \A k \in 1..Len(j3.steps) : j3.steps[k].status = "completed"
  IN
  IF allMainStepsComplete
  THEN Effect([j3 EXCEPT !.status = "completed", !.progress = 100], <<>>, <<>>)
  ELSE LET e == startNextStep(j3)
           j4 == e.job
           ga == IF \E k \in 1..Len(j4.steps) :
                      j4.steps[k].id = GenerateClipsId /\ j4.steps[k].status = "active"
                 THEN CHOOSE k \in 1..Len(j4.steps) :
                        /\ j4.steps[k].id = GenerateClipsId /\ j4.steps[k].status = "active"
                        /\ \A m \in 1..(k - 1) :
                             ~(j4.steps[m].id = GenerateClipsId /\ j4.steps[m].status = "active")
                 ELSE 0
           j5 == IF ga # 0 /\ Len(j4.clips) > 0
                 THEN [j4 EXCEPT !.steps[ga].progress =
                         (CountClips(j4.clips, "completed") * 100) \div Len(j4.clips)]
                 ELSE j4
       IN Effect(j5, e.fetches, e.posts)

\* ------------------------------------------------------------------ cancelJob
cancelJob(job) == [job EXCEPT !.status = "cancelled"]

\* ------------------------------------------------------------------- retryJob
\* Mutant: a failed step goes back to pending with its old progress.
retryResetStep_KeepProgress(step) ==
  IF step.status = "failed"
  THEN [step EXCEPT !.status = "pending", !.error = NoError]
  ELSE step

retryResetStep(step) ==
  IF step.status = "failed"
  THEN [step EXCEPT !.status = "pending", !.progress = 0, !.error = NoError]
  ELSE step

\* Mutant: the job is restarted whatever its status.
retryJob_AnyStatus(job) ==
  startNextStep([job EXCEPT
    !.steps = [i \in 1..Len(job.steps) |-> retryResetStep(job.steps[i])],
    !.status = "processing",
    !.error = NoError,
    !.progress = 0])

retryJob(job) ==
  IF job.status = "failed"
  THEN startNextStep([job EXCEPT
         !.steps = [i \in 1..Len(job.steps) |-> retryResetStep(job.steps[i])],
         !.status = "processing",
         !.error = NoError,
         !.progress = 0])
  ELSE Effect(job, <<>>, <<>>)

\* -------------------------------------------------------- generateClipsForJob
SelectedPresets(platforms) ==
  SelectSeq(getPlatformPresets, LAMBDA p : p \in platforms)

generateClipsForPlatforms(job, presets) ==
  IF Len(job.scenes) = 0 THEN Effect(job, <<>>, <<>>)
  ELSE LET new == FanOut(job.scenes, presets)
           i == FindStep(job.steps, GenerateClipsId)
           steps1 == IF i # 0
                     THEN [job.steps EXCEPT ![i].status = "active", ![i].progress = 0]
                     ELSE job.steps
       IN Effect([job EXCEPT !.clips = job.clips \o new, !.steps = steps1],
                 <<>>,
                 IF worker # "null" THEN [k \in 1..Len(new) |-> ClipPost(new[k])] ELSE <<>>)

\* Mutant: the clip list is not emptied before the new fan-out.
generateClipsForJob_NoReset(job, scenes, platforms) ==
  LET validScenes == ValidScenes(scenes) IN
  IF Len(validScenes) = 0 THEN Effect(job, <<>>, <<>>)
  ELSE LET j1 == [job EXCEPT !.scenes = validScenes]
           selectedPresets == SelectedPresets(platforms)
       IN IF Len(selectedPresets) = 0 THEN Effect(j1, <<>>, <<>>)
          ELSE generateClipsForPlatforms(j1, selectedPresets)

generateClipsForJob(job, scenes, platforms) ==
  LET validScenes == ValidScenes(scenes) IN
  IF Len(validScenes) = 0 THEN Effect(job, <<>>, <<>>)
  ELSE LET j1 == [job EXCEPT !.scenes = validScenes, !.clips = <<>>]
           selectedPresets == SelectedPresets(platforms)
       IN IF Len(selectedPresets) = 0 THEN Effect(j1, <<>>, <<>>)
          ELSE generateClipsForPlatforms(j1, selectedPresets)

\* =================================================================== actions
Msg(type, jobId, stepId, progress, hasScenes, scenes, hasClip) ==
  [type |-> type, jobId |-> jobId, stepId |-> stepId, progress |-> progress,
   hasScenes |-> hasScenes, scenes |-> scenes, hasClip |-> hasClip]

NoScenes == [s \in {} |-> TRUE]

\* A promise settles once: resolve and reject of a settled promise do nothing.
resolve(promise) == IF promise = "pending" THEN "fulfilled" ELSE promise
reject(promise) == IF promise = "pending" THEN "rejected" ELSE promise

\* No pure function is being called.
NoCall == [fn |-> "none"]

\* The worker script ends by posting 'ready'.
ReadyMsg == Msg("ready", InitId, InitId, 0, FALSE, NoScenes, FALSE)

\* ======================================================= VideoProcessingModule
\* Times are whole seconds. pendingOperations holds the ids of the registered
\* operations, posted the messages given to worker.postMessage that the worker
\* has not answered, received the worker's messages not yet handled;
\* requests[n] is the type of the request registered as op_n (it stands for
\* the continuation kept in the map), and workerStarted says that the worker
\* script has run to its end.
NewModule ==
  [worker |-> "null", isInitialized |-> FALSE, pendingOperations |-> {},
   operationCounter |-> 0, posted |-> <<>>, received |-> <<>>, requests |-> <<>>,
   workerStarted |-> FALSE]
NoId == <<"none", 0>>

\* The synchronous part of sendWorkerMessage: it throws, or registers the
\* operation and posts the message.
sendWorkerMessage(m, type) ==
  IF m.worker = "null" \/ ~m.isInitialized
  THEN [module |-> m, error |-> "VideoProcessingModule not initialized", id |-> NoId]
  ELSE LET id == <<"op", m.operationCounter + 1>>
       IN [module |-> [m EXCEPT !.operationCounter = @ + 1,
                                !.pendingOperations = @ \cup {id},
                                !.requests = Append(@, type),
                                !.posted = Append(@, [id |-> id, type |-> type])],
           error |-> NoError, id |-> id]

\* initializeWorker up to its first await: isInitialized is set after the
\* await of the init request, which is sent through sendWorkerMessage.
initializeWorker(m) == sendWorkerMessage([m EXCEPT !.worker = "alive"], "init").module
ConstructedModule == initializeWorker(NewModule)

\* State after the constructor: the worker is created, its handlers are set,
\* and the worker's 'ready' is on its way.
Constructed ==
  /\ worker = "alive"
  /\ workerReady = FALSE
  /\ workerReadyResolved = FALSE
  /\ jobs = {}
  /\ jobObjs = [j \in {} |-> NewJob(j)]
  /\ fetches = EmptyBag
  /\ conts = <<>>
  /\ atWorker = EmptyBag
  /\ fromWorker = <<ReadyMsg>>
  /\ workerReadyPromise = "pending"
  /\ timer = 1
  /\ processVideoError = NoError
  /\ videoProcessor = ConstructedModule

Init == Constructed /\ call = NoCall

\* The orchestrator applies the effect e of a routine run on job object j.
Apply(j, e) ==
  /\ jobObjs' = [jobObjs EXCEPT ![j] = e.job]
  /\ fetches' = fetches (+) BagOfSeq(e.fetches)
  /\ atWorker' = atWorker (+) BagOfSeq(e.posts)

\* handleWorkerMessage: the job is looked up by message.jobId.
handleWorkerMessage(m) ==
  IF m.jobId \notin jobs
  THEN UNCHANGED <<jobObjs, fetches, atWorker, conts>>
  ELSE LET job == jobObjs[m.jobId] IN
       CASE m.type = "progress" ->
              /\ Apply(m.jobId, Effect(updateJobProgress(job, m.stepId, m.progress), <<>>, <<>>))
              /\ UNCHANGED conts
         [] m.type = "complete" ->
              LET j0 == handleStepCompleteSync(job, m.stepId) IN
              IF handleStepCompleteAwaits(j0, m)
              THEN /\ Apply(m.jobId, Effect(j0, <<>>, <<>>))
                   /\ conts' = Append(conts, [job |-> m.jobId, msg |-> m])
              ELSE /\ Apply(m.jobId, handleStepCompleteRest(j0, m, TRUE))
                   /\ UNCHANGED conts
         [] m.type = "error" ->
              /\ Apply(m.jobId, Effect(handleStepError(job, m.stepId, "worker error"), <<>>, <<>>))
              /\ UNCHANGED conts
         [] OTHER -> UNCHANGED <<jobObjs, fetches, atWorker, conts>>

\* worker.onmessage
OnMessage ==
  /\ fromWorker # <<>>
  /\ LET m == Head(fromWorker) IN
       /\ fromWorker' = Tail(fromWorker)
       /\ IF m.type \in {"ready", "pong"}
          THEN /\ IF ~workerReadyResolved
                  THEN /\ workerReady' = TRUE
                       /\ workerReadyResolved' = TRUE
                       /\ workerReadyPromise' = resolve(workerReadyPromise)
                  ELSE UNCHANGED <<workerReady, workerReadyResolved, workerReadyPromise>>
               /\ UNCHANGED <<jobObjs, fetches, atWorker, conts>>
          ELSE /\ handleWorkerMessage(m)
               /\ UNCHANGED <<workerReady, workerReadyResolved, workerReadyPromise>>
  /\ UNCHANGED <<elsewhere, worker, jobs>>

\* A suspended handleStepComplete resumes once its thumbnails are settled.
ResumeStepComplete(i) ==
  /\ i \in 1..Len(conts)
  /\ \E thumbOk \in BOOLEAN :
       LET c == conts[i] IN
       Apply(c.job, handleStepCompleteRest(jobObjs[c.job], c.msg, thumbOk))
  /\ conts' = RemoveAt(conts, i)
  /\ UNCHANGED <<workerReadyPromise, elsewhere, worker, workerReady, workerReadyResolved, jobs, fromWorker>>

\* processVideo, from the point where the awaited handshake has succeeded.
ProcessVideo(j) ==
  /\ j \notin DOMAIN jobObjs
  /\ workerReadyPromise = "fulfilled"
  /\ worker # "null" /\ workerReady
  /\ LET e == startNextStep([NewJob(j) EXCEPT !.status = "processing"]) IN
       /\ jobObjs' = [k \in DOMAIN jobObjs \cup {j} |-> IF k = j THEN e.job ELSE jobObjs[k]]
       /\ fetches' = fetches (+) BagOfSeq(e.fetches)
       /\ atWorker' = atWorker (+) BagOfSeq(e.posts)
  /\ jobs' = jobs \cup {j}
  /\ UNCHANGED <<workerReadyPromise, elsewhere, worker, workerReady, workerReadyResolved, conts, fromWorker>>

CancelJob(j) ==
  /\ j \in jobs
  /\ Apply(j, Effect(cancelJob(jobObjs[j]), <<>>, <<>>))
  /\ UNCHANGED <<workerReadyPromise, elsewhere, worker, workerReady, workerReadyResolved, jobs, conts, fromWorker>>

RetryJob(j) ==
  /\ j \in jobs
  /\ Apply(j, retryJob(jobObjs[j]))
  /\ UNCHANGED <<workerReadyPromise, elsewhere, worker, workerReady, workerReadyResolved, jobs, conts, fromWorker>>

\* Clip tasks in flight: being fetched for, at the worker, or replied to.
ClipsIn(B) ==
  LET S == {x \in BagToSet(B) : x.kind = "generateClip"} IN
  IF S = {} THEN 0 ELSE BagCardinality([x \in S |-> B[x]])
ClipBacklog ==
  ClipsIn(fetches) + ClipsIn(atWorker)
  + Cardinality({i \in 1..Len(fromWorker) : IsClipId(fromWorker[i].stepId)})

GenerateClipsForJob(j, scenes, platforms) ==
  /\ j \in jobs
  /\ Apply(j, generateClipsForJob(jobObjs[j], scenes, platforms))
  /\ UNCHANGED <<workerReadyPromise, elsewhere, worker, workerReady, workerReadyResolved, jobs, conts, fromWorker>>

\* cleanup(): the worker is terminated, which also empties the queue of its
\* undelivered messages; the maps are cleared, the job objects live on in the
\* closures of pending fetches and suspended calls.
Cleanup ==
  /\ worker # "null"
  /\ worker' = "null"
  /\ jobs' = {}
  /\ atWorker' = EmptyBag
  /\ fromWorker' = <<>>
  /\ UNCHANGED <<workerReadyPromise, elsewhere, workerReady, workerReadyResolved, jobObjs, fetches,
                 conts>>

\* fetch(videoFile.url) resolves: the request is posted to the worker; with
\* the worker gone, posting throws and the promise's catch handler runs.
FetchCatch(f) ==
  IF f.kind = "detectScenes"
  THEN jobObjs' = [jobObjs EXCEPT ![f.job] =
                     handleStepError(jobObjs[f.job], f.stepId, "Failed to read video file")]
  ELSE UNCHANGED jobObjs

FetchResolve(f) ==
  /\ BagIn(f, fetches)
  /\ fetches' = fetches (-) One(f)
  /\ IF worker = "null"
     THEN FetchCatch(f) /\ UNCHANGED atWorker
     ELSE /\ atWorker' = atWorker (+) One([kind |-> f.kind, jobId |-> f.jobId,
                                           stepId |-> f.stepId, hasVideo |-> f.hasVideo])
          /\ UNCHANGED jobObjs
  /\ UNCHANGED <<workerReadyPromise, elsewhere, worker, workerReady, workerReadyResolved, jobs, conts, fromWorker>>

\* fetch rejects (or posting the request throws): the catch handler runs.
FetchReject(f) ==
  /\ BagIn(f, fetches)
  /\ fetches' = fetches (-) One(f)
  /\ FetchCatch(f)
  /\ UNCHANGED <<workerReadyPromise, elsewhere, worker, workerReady, workerReadyResolved, jobs, conts, atWorker, fromWorker>>

\* ---------------------------------------------------------------- the worker
\* VideoProcessor.detectScenes / generateClip report progress (generateClip
\* throws before its first report when the request carries no video data) ...
WorkerProgress(r) ==
  /\ BagIn(r, atWorker)
  /\ r.hasVideo
  /\ Len(fromWorker) < MaxQueue
  /\ \E p \in IF r.kind = "detectScenes" THEN ProgressValues ELSE {100} :
       fromWorker' = Append(fromWorker,
         Msg("progress", r.jobId,
             IF r.kind = "detectScenes" THEN DetectScenesId ELSE r.jobId,
             p, FALSE, NoScenes, FALSE))
  /\ UNCHANGED <<workerReadyPromise, elsewhere, worker, workerReady, workerReadyResolved, jobs, jobObjs, fetches, conts,
                 atWorker>>

\* ... and self.onmessage posts 'complete' with the result ...
WorkerComplete(r) ==
  /\ BagIn(r, atWorker)
  /\ Len(fromWorker) < MaxQueue
  /\ IF r.kind = "detectScenes"
     THEN \E n \in 0..MaxScenes :
            fromWorker' = Append(fromWorker,
              Msg("complete", r.jobId, r.stepId, 0, TRUE, [s \in 1..n |-> TRUE], FALSE))
     ELSE /\ r.hasVideo
          /\ fromWorker' = Append(fromWorker,
               Msg("complete", r.jobId, r.stepId, 0, FALSE, NoScenes, TRUE))
  /\ atWorker' = atWorker (-) One(r)
  /\ UNCHANGED <<workerReadyPromise, elsewhere, worker, workerReady, workerReadyResolved, jobs, jobObjs, fetches, conts>>

\* ... or 'error' when the processor threw.
WorkerError(r) ==
  /\ BagIn(r, atWorker)
  /\ r.kind # "ping"
  /\ Len(fromWorker) < MaxQueue
  /\ fromWorker' = Append(fromWorker,
       Msg("error", r.jobId, r.stepId, 0, FALSE, NoScenes, FALSE))
  /\ atWorker' = atWorker (-) One(r)
  /\ UNCHANGED <<workerReadyPromise, elsewhere, worker, workerReady, workerReadyResolved, jobs, jobObjs, fetches, conts>>

\* ... and a 'ping' is answered with 'pong' before anything else is tried.
PingRequest == [kind |-> "ping", jobId |-> InitId, stepId |-> InitId, hasVideo |-> FALSE]
PongMsg == Msg("pong", InitId, InitId, 0, FALSE, NoScenes, FALSE)

WorkerPong ==
  /\ BagIn(PingRequest, atWorker)
  /\ Len(fromWorker) < MaxQueue
  /\ fromWorker' = Append(fromWorker, PongMsg)
  /\ atWorker' = atWorker (-) One(PingRequest)
  /\ UNCHANGED <<workerReadyPromise, elsewhere, worker, workerReady, workerReadyResolved, jobs,
                 jobObjs, fetches, conts>>

\* ------------------------------------------------------------- the handshake
\* Mutant: the first timer pings the worker and arms no second timer.
HandshakeTimer1_NoSecond ==
  /\ timer = 1
  /\ timer' = 0
  /\ atWorker' = IF ~workerReady /\ ~workerReadyResolved /\ worker # "null"
                 THEN atWorker (+) One(PingRequest) ELSE atWorker
  /\ UNCHANGED <<workerReadyPromise, processVideoError, call, videoProcessor, worker, workerReady,
                 workerReadyResolved, jobs, jobObjs, fetches, conts, fromWorker>>

\* The first timer of initializeWorker (1000 ms): with no 'ready' so far the
\* worker is pinged and the second timer is armed.
HandshakeTimer1 ==
  /\ timer = 1
  /\ IF ~workerReady /\ ~workerReadyResolved
     THEN /\ timer' = 2
          /\ atWorker' = IF worker # "null" THEN atWorker (+) One(PingRequest) ELSE atWorker
     ELSE /\ timer' = 0
          /\ UNCHANGED atWorker
  /\ UNCHANGED <<workerReadyPromise, processVideoError, call, videoProcessor, worker, workerReady,
                 workerReadyResolved, jobs, jobObjs, fetches, conts, fromWorker>>

\* The second timer (2000 ms later): still no 'ready' or 'pong', the promise
\* is rejected.
HandshakeTimer2 ==
  /\ timer = 2
  /\ timer' = 0
  /\ IF ~workerReady /\ ~workerReadyResolved
     THEN /\ workerReadyResolved' = TRUE
          /\ workerReadyPromise' = reject(workerReadyPromise)
     ELSE UNCHANGED <<workerReadyResolved, workerReadyPromise>>
  /\ UNCHANGED <<processVideoError, call, videoProcessor, worker, workerReady, jobs, jobObjs, fetches, conts,
                 atWorker, fromWorker>>

\* worker.onerror: the worker raised its error event; the requests in `lost`
\* (none, or the one it was working on) will never be answered.
WorkerOnError(lost) ==
  /\ worker # "null"
  /\ atWorker' = atWorker (-) lost
  /\ IF ~workerReadyResolved
     THEN /\ workerReady' = FALSE
          /\ workerReadyPromise' = reject(workerReadyPromise)
     ELSE UNCHANGED <<workerReady, workerReadyPromise>>
  /\ UNCHANGED <<elsewhere, worker, workerReadyResolved, jobs, jobObjs, fetches, conts,
                 fromWorker>>

\* processVideo throws: the awaited handshake was rejected, or the worker is
\* not there after it.
ProcessVideoFails ==
  /\ \/ /\ workerReadyPromise = "rejected"
        /\ processVideoError' = "Failed to initialize video processing worker"
     \/ /\ workerReadyPromise = "fulfilled"
        /\ worker = "null" \/ ~workerReady
        /\ processVideoError' = "Worker not available after initialization"
  /\ UNCHANGED <<timer, call, videoProcessor, worker, workerReady, workerReadyResolved, workerReadyPromise,
                 jobs, jobObjs, fetches, conts, atWorker, fromWorker>>

\* ======================================================= AdvancedSceneDetection
\* Times are whole seconds; confidences and weights are hundredths and tenths
\* (a confidence of 1 is 100, a weight of 1.2 is 12).
Methods ==
  <<"pixelDifference", "audioAmplitude", "colorHistogram", "motionVector", "faceDetection">>
MethodSet == {Methods[i] : i \in 1..Len(Methods)}
mergeWindow == 2

\* The boundaries an analyzer may report.  Each analyzer reports at most one
\* boundary per sampled time, none at time 0; only motionVector records a
\* motionLevel (here 0.8), and the simulated face detector records
\* currentSpeakers = 0 whenever it reports a change.
Timestamps == {1, 2, 3, 12}
RawConfidences == {50, 100}
RawBoundaries ==
  [timestamp : Timestamps, confidence : RawConfidences, method : MethodSet,
   motionLevel : {0, 8}, currentSpeakers : {0}]
RawBoundary ==
  {b \in RawBoundaries : b.motionLevel = (IF b.method = "motionVector" THEN 8 ELSE 0)}

Synthetic(t, method) ==
  [timestamp |-> t, confidence |-> 100, method |-> method, motionLevel |-> 0,
   currentSpeakers |-> 0]

\* Mutant: the pooled boundaries are left in the order of the analyzers.
SortByTimestamp_Unsorted(seq) == seq

\* array.sort((a, b) => a.timestamp - b.timestamp), which is stable.
RECURSIVE InsertByTimestamp(_, _)
InsertByTimestamp(sorted, b) ==
  IF sorted = <<>> THEN <<b>>
  ELSE IF sorted[Len(sorted)].timestamp <= b.timestamp THEN Append(sorted, b)
  ELSE Append(InsertByTimestamp(SubSeq(sorted, 1, Len(sorted) - 1), b), sorted[Len(sorted)])
RECURSIVE SortByTimestamp(_)
SortByTimestamp(seq) ==
  IF seq = <<>> THEN <<>>
  ELSE InsertByTimestamp(SortByTimestamp(SubSeq(seq, 1, Len(seq) - 1)), seq[Len(seq)])

\* The list an analyzer returns: its boundaries in the order of their times.
RECURSIVE SeqOfBoundaries(_)
SeqOfBoundaries(B) ==
  IF B = {} THEN <<>>
  ELSE LET b == CHOOSE x \in B : \A y \in B : x.timestamp <= y.timestamp
       IN <<b>> \o SeqOfBoundaries(B \ {b})

\* Mutant: every analyzer is run, enabled or not.
DetectionResults_AllRun(raw, config) ==
  [m \in MethodSet |-> SeqOfBoundaries({b \in raw : b.method = m})]

\* detectionResults of detectScenes: only the enabled analyzers are run.
DetectionResults(raw, config) ==
  [m \in MethodSet |->
     IF m \in config.enabled THEN SeqOfBoundaries({b \in raw : b.method = m}) ELSE <<>>]

\* config.algorithms[method]?.weight || 1
WeightOf(config, m) == IF config.weight[m] = 0 THEN 10 ELSE config.weight[m]

\* Object.entries(results).forEach(...): the boundaries of all analyzers,
\* each with its confidence multiplied by the analyzer's weight.
RECURSIVE PoolBoundaries(_, _, _)
PoolBoundaries(results, config, i) ==
  IF i > Len(Methods) THEN <<>>
  ELSE LET m == Methods[i]
           r == results[m]
       IN [k \in 1..Len(r) |->
             [r[k] EXCEPT !.confidence = (r[k].confidence * WeightOf(config, m)) \div 10]]
          \o PoolBoundaries(results, config, i + 1)

\* Mutant: of two boundaries closer than the window the later one is kept.
RECURSIVE MergeNearby_KeepLater(_, _)
MergeNearby_KeepLater(all, merged) ==
  IF all = <<>> THEN merged
  ELSE LET boundary == Head(all)
           n == Len(merged)
       IN IF n > 0 /\ boundary.timestamp - merged[n].timestamp < mergeWindow
             /\ merged[n].timestamp - boundary.timestamp < mergeWindow
          THEN MergeNearby_KeepLater(Tail(all), [merged EXCEPT ![n] = boundary])
          ELSE MergeNearby_KeepLater(Tail(all), Append(merged, boundary))

\* The merge loop: a boundary closer than mergeWindow to the last retained one
\* replaces it when its confidence is higher, and is dropped otherwise.
RECURSIVE MergeNearby(_, _)
MergeNearby(all, merged) ==
  IF all = <<>> THEN merged
  ELSE LET boundary == Head(all)
           n == Len(merged)
       IN IF n > 0 /\ boundary.timestamp - merged[n].timestamp < mergeWindow
             /\ merged[n].timestamp - boundary.timestamp < mergeWindow
          THEN IF boundary.confidence > merged[n].confidence
               THEN MergeNearby(Tail(all), [merged EXCEPT ![n] = boundary])
               ELSE MergeNearby(Tail(all), merged)
          ELSE MergeNearby(Tail(all), Append(merged, boundary))

combineDetectionResults(results, config) ==
  MergeNearby(SortByTimestamp(PoolBoundaries(results, config, 1)), <<>>)

\* The filter loop of refineBoundaries over refined[i..].
RECURSIVE FilterShort(_, _, _, _)
FilterShort(refined, i, filtered, minDuration) ==
  IF i > Len(refined) THEN filtered
  ELSE IF refined[i].timestamp - filtered[Len(filtered)].timestamp >= minDuration
  THEN FilterShort(refined, i + 1, Append(filtered, refined[i]), minDuration)
  ELSE FilterShort(refined, i + 1, filtered, minDuration)

refineBoundaries(boundaries, minDuration, totalDuration) ==
  LET refined == <<Synthetic(0, "start")>> \o boundaries \o <<Synthetic(totalDuration, "end")>>
  IN FilterShort(refined, 2, <<refined[1]>>, minDuration)

createSceneObject(id, startTime, endTime, boundary) ==
  [id |-> id, startTime |-> startTime, endTime |-> endTime,
   duration |-> endTime - startTime,
   confidence |-> boundary.confidence,
   speakers |-> IF boundary.currentSpeakers # 0
                THEN {<<"speaker", boundary.currentSpeakers>>} ELSE {<<"unknown", 0>>},
   motionLevel |-> IF boundary.motionLevel > 7 THEN "high"
                   ELSE IF boundary.motionLevel > 3 THEN "medium" ELSE "low"]

\* Mutant: a scene is created for every pair of adjacent boundaries.
RECURSIVE CreateScenes_NoCap(_, _, _, _, _)
CreateScenes_NoCap(refinedBoundaries, i, scenes, config, duration) ==
  IF i > Len(refinedBoundaries) - 1 THEN scenes
  ELSE CreateScenes_NoCap(refinedBoundaries, i + 1,
         Append(scenes, createSceneObject(i, refinedBoundaries[i].timestamp,
                                          refinedBoundaries[i + 1].timestamp,
                                          refinedBoundaries[i])),
         config, duration)

\* The loop of detectScenes that creates the scene objects, from index i on.
RECURSIVE CreateScenes(_, _, _, _, _)
CreateScenes(refinedBoundaries, i, scenes, config, duration) ==
  LET last == IF Len(refinedBoundaries) - 1 < config.maxScenes
              THEN Len(refinedBoundaries) - 1 ELSE config.maxScenes
  IN IF i > last THEN scenes
     ELSE LET startTime == refinedBoundaries[i].timestamp
              endTime == IF refinedBoundaries[i + 1].timestamp = 0 THEN duration
                         ELSE refinedBoundaries[i + 1].timestamp
          IN CreateScenes(refinedBoundaries, i + 1,
               IF endTime - startTime >= config.minSceneDuration
               THEN Append(scenes, createSceneObject(i, startTime, endTime, refinedBoundaries[i]))
               ELSE scenes,
               config, duration)

shouldMergeForContext(scene1, scene2) ==
  /\ scene1.duration + scene2.duration < 20
  /\ scene1.speakers \cap scene2.speakers # {}
  /\ scene1.motionLevel = scene2.motionLevel

\* The loop of applyContextualRefinements, at index i (from 1).
RECURSIVE MergeForContext(_, _)
MergeForContext(scenes, i) ==
  IF i > Len(scenes) - 1 THEN scenes
  ELSE IF shouldMergeForContext(scenes[i], scenes[i + 1])
  THEN MergeForContext(
         RemoveAt([scenes EXCEPT ![i].endTime = scenes[i + 1].endTime,
                                 ![i].duration = scenes[i + 1].endTime - scenes[i].startTime],
                  i + 1),
         i)
  ELSE MergeForContext(scenes, i + 1)

\* modelLoaded: aiModelManager.isModelLoaded('llama-3.2-1b')
applyContextualRefinements(scenes, config, modelLoaded) ==
  IF ~config.contextual THEN scenes
  ELSE IF modelLoaded THEN MergeForContext(scenes, 1) ELSE scenes

\* detectScenes on a video whose analyzers would report the boundaries `raw`:
\* the fused boundaries, the refined ones and the scenes returned.
detectScenes(raw, config, duration, modelLoaded) ==
  LET combinedBoundaries == combineDetectionResults(DetectionResults(raw, config), config)
      refinedBoundaries == refineBoundaries(combinedBoundaries, config.minSceneDuration, duration)
      scenes == CreateScenes(refinedBoundaries, 1, <<>>, config, duration)
  IN [combined |-> combinedBoundaries,
      refined |-> refinedBoundaries,
      scenes |-> IF config.contextual
                 THEN applyContextualRefinements(scenes, config, modelLoaded)
                 ELSE scenes]

\* The sets of at most k elements of S.
RECURSIVE SubsetsUpTo(_, _)
SubsetsUpTo(S, k) ==
  IF k = 0 THEN {{}}
  ELSE LET T == SubsetsUpTo(S, k - 1) IN T \cup {R \cup {b} : R \in T, b \in S}

\* What the analyzers may report for one video: at most MaxRaw boundaries, no
\* analyzer reporting two at the same time.
RawResults ==
  {R \in SubsetsUpTo(RawBoundary, MaxRaw) :
     \A a, b \in R : a.method = b.method /\ a.timestamp = b.timestamp => a = b}

DefaultWeights ==
  [m \in MethodSet |->
     CASE m = "pixelDifference" -> 10 [] m = "audioAmplitude" -> 8
       [] m = "colorHistogram" -> 7 [] m = "motionVector" -> 9 [] OTHER -> 12]
\* Weights a user may set instead (0.1 to 2 in the panel).
CustomWeights ==
  [m \in MethodSet |->
     CASE m = "pixelDifference" -> 5 [] m = "audioAmplitude" -> 20
       [] m = "colorHistogram" -> 15 [] m = "motionVector" -> 1 [] OTHER -> 10]

DetectionCall(raw, config, duration, modelLoaded) ==
  [fn |-> "detectScenes", raw |-> raw, config |-> config, duration |-> duration,
   modelLoaded |-> modelLoaded, done |-> FALSE,
   out |-> [combined |-> <<>>, refined |-> <<>>, scenes |-> <<>>]]

\* The call returns.
DetectScenes ==
  /\ call.fn = "detectScenes"
  /\ ~call.done
  /\ call' = [call EXCEPT !.done = TRUE,
                          !.out = detectScenes(call.raw, call.config, call.duration,
                                               call.modelLoaded)]
  /\ UNCHANGED <<orchestrator, videoProcessor>>

\* ================================================================ ClipGenerator
\* Durations are seconds, results hundredths of a second; a factor in [0,1]
\* is counted in tenths.
Min(a, b) == IF a < b THEN a ELSE b
Max(a, b) == IF a > b THEN a ELSE b

\* x || fallback on numbers: 0 (like undefined) gives the fallback.
OrElse(x, fallback) == IF x = 0 THEN fallback ELSE x

\* Mutant: the duration is limited by the platform only, not by the scene.
calculateOptimalDuration_NoSceneLimit(scene, platform, viralPotential) ==
  LET platformPreferred == OrElse(platform.preferredLength, platform.maxDuration)
      targetDuration == platformPreferred * (70 + OrElse(viralPotential, 5) * 6)
  IN Min(Max(500, targetDuration), platform.maxDuration * 100)

calculateOptimalDuration(scene, platform, viralPotential) ==
  LET baseDuration == scene.duration
      platformMax == platform.maxDuration
      platformPreferred == OrElse(platform.preferredLength, platformMax)
      engagementMultiplier == OrElse(viralPotential, 5)
      targetDuration == platformPreferred * (70 + engagementMultiplier * 6)
  IN Min(Max(500, targetDuration), Min(baseDuration, platformMax) * 100)

\* generateOptimizedClip up to its call of trimVideo: the window it passes, in
\* hundredths of a second.
trimWindow(scene, platform, viralPotential) ==
  LET optimalDuration == calculateOptimalDuration(scene, platform, viralPotential)
      startTime == Max(0, (scene.startTime - 1) * 100)
      endTime == Min((scene.endTime + 1) * 100, startTime + optimalDuration)
  IN [startTime |-> startTime, endTime |-> endTime, optimalDuration |-> optimalDuration]

\* Mutant: viralPotential has a weight of 0.20.
qualityWeights_Heavy ==
  [hookStrength |-> 25, visualAppeal |-> 20, pacing |-> 15, contentDensity |-> 15,
   emotionalImpact |-> 15, viralPotential |-> 20]

\* The weights of calculateQualityScore, in hundredths.
qualityWeights ==
  [hookStrength |-> 25, visualAppeal |-> 20, pacing |-> 15, contentDensity |-> 15,
   emotionalImpact |-> 15, viralPotential |-> 10]
FactorNames ==
  <<"hookStrength", "visualAppeal", "pacing", "contentDensity", "emotionalImpact",
    "viralPotential">>

\* Object.entries(factors).reduce(...): the result is in thousandths.
RECURSIVE SumFactors(_, _)
SumFactors(factors, i) ==
  IF i > Len(FactorNames) THEN 0
  ELSE factors[FactorNames[i]] * qualityWeights[FactorNames[i]] + SumFactors(factors, i + 1)
calculateQualityScore(factors) == SumFactors(factors, 1)

\* Scenes and platforms the functions are called with: scenes shorter than
\* 5 s and longer than a platform allows, the catalogue's pairs of maxDuration
\* and preferredLength, and a platform without content guidelines.
SceneDurations == {3, 15, 25, 70, 700}
PlatformLimits ==
  {[maxDuration |-> 60, preferredLength |-> 30], [maxDuration |-> 90, preferredLength |-> 45],
   [maxDuration |-> 60, preferredLength |-> 45], [maxDuration |-> 600, preferredLength |-> 120],
   [maxDuration |-> 140, preferredLength |-> 45], [maxDuration |-> 60, preferredLength |-> 0]}
Tenths == 0..10
FactorValues == {0, 5, 10}

ClipGeneratorCalls ==
  {[fn |-> "calculateOptimalDuration", scene |-> [duration |-> d], platform |-> p,
    viralPotential |-> v, done |-> FALSE, out |-> 0] :
     d \in SceneDurations, p \in PlatformLimits, v \in Tenths}
  \cup
  {[fn |-> "calculateQualityScore", factors |-> f, done |-> FALSE, out |-> 0] :
     f \in [{FactorNames[i] : i \in 1..Len(FactorNames)} -> FactorValues]}

CalculateOptimalDuration ==
  /\ call.fn = "calculateOptimalDuration"
  /\ ~call.done
  /\ call' = [call EXCEPT !.done = TRUE,
                !.out = calculateOptimalDuration(call.scene, call.platform, call.viralPotential)]
  /\ UNCHANGED <<orchestrator, videoProcessor>>

\* Scenes as detectScenes builds them (duration = endTime - startTime),
\* starting at 0, at 1 s and later.
SceneStarts == {0, 1, 10}
OptimizedClipCalls ==
  {[fn |-> "generateOptimizedClip",
    scene |-> [startTime |-> a, endTime |-> a + d, duration |-> d],
    platform |-> p, viralPotential |-> v, done |-> FALSE,
    out |-> [startTime |-> 0, endTime |-> 0, optimalDuration |-> 0]] :
     a \in SceneStarts, d \in SceneDurations, p \in PlatformLimits, v \in Tenths}

GenerateOptimizedClip ==
  /\ call.fn = "generateOptimizedClip"
  /\ ~call.done
  /\ call' = [call EXCEPT !.done = TRUE,
                !.out = trimWindow(call.scene, call.platform, call.viralPotential)]
  /\ UNCHANGED <<orchestrator, videoProcessor>>

CalculateQualityScore ==
  /\ call.fn = "calculateQualityScore"
  /\ ~call.done
  /\ call' = [call EXCEPT !.done = TRUE, !.out = calculateQualityScore(call.factors)]
  /\ UNCHANGED <<orchestrator, videoProcessor>>

\* ------------------------------------------ ClipGenerator.generateClipsFromScenes
\* Scenes are numbered 1..call.scenes; a composition task is a pair of a scene
\* and a platform. call.task gives each pair "none", "running", "done" or
\* "failed"; call.i is the loop index; call.at is "loop" (at the loop test),
\* "awaiting" (Promise.all of the batch), "returned" or "thrown".
TaskPairs(c) == (1..c.scenes) \X {c.platforms[k] : k \in 1..Len(c.platforms)}
totalClips(c) == c.scenes * Len(c.platforms)
batchSize(c) == Min(c.options.batchSize, totalClips(c))
\* scenes.slice(i, i + batchSize) x platforms
BatchPairs(c) == {t \in TaskPairs(c) : t[1] > c.i /\ t[1] <= c.i + batchSize(c)}
InFlight(c) == {t \in TaskPairs(c) : c.task[t] = "running"}

\* The tasks the flatMap of one loop round starts, each up to its first await.
StartedTasks(c) == BatchPairs(c)

\* The loop test, and for a batch the synchronous start of its tasks.
StartBatch ==
  /\ call.fn = "generateClipsFromScenes"
  /\ call.at = "loop"
  /\ call' = IF call.i < call.scenes
             THEN [call EXCEPT !.at = "awaiting",
                     !.task = [t \in TaskPairs(call) |->
                                 IF t \in StartedTasks(call) THEN "running" ELSE call.task[t]]]
             ELSE [call EXCEPT !.at = "returned", !.out = call.generatedClips]
  /\ UNCHANGED <<orchestrator, videoProcessor>>

\* A task's analysis and composition succeed: the clip is pushed.
ComposeSucceeds(t) ==
  /\ call.fn = "generateClipsFromScenes"
  /\ t \in InFlight(call)
  /\ t \notin call.failing
  /\ call' = [call EXCEPT !.task[t] = "done", !.generatedClips = Append(@, t)]
  /\ UNCHANGED <<orchestrator, videoProcessor>>

\* A task's composition throws: the catch logs and rethrows.
ComposeFails(t) ==
  /\ call.fn = "generateClipsFromScenes"
  /\ t \in InFlight(call)
  /\ t \in call.failing
  /\ call' = [call EXCEPT !.task[t] = "failed"]
  /\ UNCHANGED <<orchestrator, videoProcessor>>

\* await Promise.all(batchPromises): it rejects with the first task that
\* failed, and resolves when every task of the batch is done.
BatchSettled ==
  /\ call.fn = "generateClipsFromScenes"
  /\ call.at = "awaiting"
  /\ \/ /\ \E t \in BatchPairs(call) : call.task[t] = "failed"
        /\ call' = [call EXCEPT !.at = "thrown"]
     \/ /\ \A t \in BatchPairs(call) : call.task[t] = "done"
        /\ call' = [call EXCEPT !.at = "loop", !.i = @ + batchSize(call)]
  /\ UNCHANGED <<orchestrator, videoProcessor>>

\* The calls: up to MaxGenScenes scenes, no, one or two platforms, a batchSize
\* option of 0, 1 or 2, and at most one pair whose composition fails.
MaxGenScenes == 2
GenPlatformLists == {<<>>, <<"tiktok">>, <<"tiktok", "instagram-reels">>}
BatchSizeOptions == {0, 1, 2}
GenerateClipsCalls ==
  UNION {
    LET c == [fn |-> "generateClipsFromScenes", scenes |-> n, platforms |-> ps,
              options |-> [batchSize |-> b]]
    IN {[fn |-> "generateClipsFromScenes", scenes |-> n, platforms |-> ps,
         options |-> [batchSize |-> b], failing |-> f, i |-> 0, at |-> "loop",
         task |-> [t \in TaskPairs(c) |-> "none"], generatedClips |-> <<>>, out |-> <<>>] :
          f \in {{}} \cup {{t} : t \in TaskPairs(c)}} :
    n \in 0..MaxGenScenes, ps \in GenPlatformLists, b \in BatchSizeOptions}

\* ------------------------------------- VideoProcessingModule: its operations
InvalidRange(start, end) == start < 0 \/ end <= start

\* Mutant: trimVideo does not look at the range.
trimVideoValidation_None(startTime, endTime) == NoError

\* The checks of trimVideo and splitVideo before their first await: the
\* error thrown, if any.
trimVideoValidation(startTime, endTime) ==
  IF InvalidRange(startTime, endTime) THEN "Invalid time range" ELSE NoError
splitVideoValidation(timestamps) ==
  IF Len(timestamps) = 0 THEN "No timestamps provided"
  ELSE IF \E i \in 1..Len(timestamps) : InvalidRange(timestamps[i].start, timestamps[i].end)
       THEN "Invalid timestamp range"
       ELSE NoError

\* A call moves from "called" to "arrayBuffer" (awaiting videoFile.arrayBuffer())
\* or "rejected", and from "arrayBuffer" to "awaiting" (the worker's answer) or
\* "rejected".
Validated(error) ==
  IF error # NoError
  THEN [call EXCEPT !.at = "rejected", !.error = error]
  ELSE [call EXCEPT !.at = "arrayBuffer"]

TrimVideo ==
  /\ call.fn = "trimVideo"
  /\ call.at = "called"
  /\ call' = Validated(trimVideoValidation(call.startTime, call.endTime))
  /\ UNCHANGED <<orchestrator, videoProcessor>>

SplitVideo ==
  /\ call.fn = "splitVideo"
  /\ call.at = "called"
  /\ call' = Validated(splitVideoValidation(call.timestamps))
  /\ UNCHANGED <<orchestrator, videoProcessor>>

\* videoFile.arrayBuffer() resolved: the operation is sent to the worker.
ArrayBufferResolved ==
  /\ call.fn \in {"trimVideo", "splitVideo"}
  /\ call.at = "arrayBuffer"
  /\ LET r == sendWorkerMessage(videoProcessor, call.fn)
     IN /\ videoProcessor' = r.module
        /\ call' = IF r.error # NoError
                   THEN [call EXCEPT !.at = "rejected", !.error = r.error]
                   ELSE [call EXCEPT !.at = "awaiting", !.id = r.id]
  /\ UNCHANGED orchestrator

\* cleanup() up to its first await; without an await, the finally clause runs
\* at once.
ModuleCleanup ==
  /\ videoProcessor.worker # "null"
  /\ videoProcessor' =
       IF videoProcessor.isInitialized
       THEN sendWorkerMessage(videoProcessor, "cleanup").module
       ELSE [videoProcessor EXCEPT !.worker = "null", !.isInitialized = FALSE,
                                   !.pendingOperations = {}]
  /\ UNCHANGED <<orchestrator, call>>

isReady(m) == m.isInitialized /\ m.worker # "null"

\* The worker: its script ends by posting 'ready' under the id 'init'; then it
\* answers the requests in their order, init and cleanup with success, the
\* others with success or error.
ReadySignal == [id |-> <<"init", 0>>, type |-> "ready"]
WorkerPosts(m) ==
  IF ~m.workerStarted THEN {ReadySignal}
  ELSE IF m.posted = <<>> THEN {}
  ELSE {[id |-> Head(m.posted).id, type |-> t] :
          t \in IF Head(m.posted).type \in {"init", "cleanup"}
                THEN {"success"} ELSE {"success", "error"}}
ModuleWorker ==
  /\ \E r \in WorkerPosts(videoProcessor) :
       videoProcessor' =
         [videoProcessor EXCEPT !.workerStarted = TRUE,
                                !.posted = IF r = ReadySignal THEN @ ELSE Tail(@),
                                !.received = Append(@, r)]
  /\ UNCHANGED <<orchestrator, call>>

\* The type of the request that was registered under an id.
RequestType(m, id) == IF id[1] = "op" THEN m.requests[id[2]] ELSE "none"

\* handleWorkerMessage, with the continuation of the operation it settles:
\* initializeWorker sets isInitialized, cleanup terminates the worker and
\* clears the module, trimVideo and splitVideo return or throw.
HandleWorkerMessage ==
  /\ videoProcessor.received # <<>>
  /\ LET r == Head(videoProcessor.received)
         m == [videoProcessor EXCEPT !.received = Tail(@)]
         request == RequestType(m, r.id)
         settles == r.id \in m.pendingOperations /\ r.type \in {"success", "error"}
         m1 == [m EXCEPT !.pendingOperations = @ \ {r.id}]
     IN /\ videoProcessor' =
             IF ~settles THEN m
             ELSE IF request = "init" /\ r.type = "success"
                  THEN [m1 EXCEPT !.isInitialized = TRUE]
             ELSE IF request = "cleanup"
                  THEN [m1 EXCEPT !.worker = "null", !.isInitialized = FALSE,
                                  !.pendingOperations = {}]
             ELSE m1
        /\ call' = IF settles /\ r.id = call.id
                   THEN [call EXCEPT !.at = IF r.type = "success" THEN "resolved" ELSE "rejected",
                                     !.error = IF r.type = "success" THEN NoError
                                               ELSE "worker error"]
                   ELSE call
  /\ UNCHANGED orchestrator

\* Start and end times of the calls: negative, zero, empty and proper ranges.
StartTimes == {0 - 1, 0, 5}
EndTimes == {0 - 1, 0, 5, 10}
Segments == {[start |-> 0 - 1, end |-> 5], [start |-> 0, end |-> 5],
             [start |-> 5, end |-> 5], [start |-> 5, end |-> 10]}
MaxSegments == 2
ModuleCalls ==
  {[fn |-> "trimVideo", startTime |-> a, endTime |-> b, at |-> "called", error |-> NoError,
    id |-> NoId] :
     a \in StartTimes, b \in EndTimes}
  \cup
  {[fn |-> "splitVideo", timestamps |-> t, at |-> "called", error |-> NoError, id |-> NoId] :
     t \in UNION {[1..n -> Segments] : n \in 0..MaxSegments}}

\* ------------------------------------------------------------ specifications
\* Scene lists a caller may pass: any distinct scenes, all of them valid, and
\* a list whose last scene fails the validity test.
SceneLists ==
  {[s \in S |-> TRUE] : S \in SUBSET SceneIds}
  \cup {[s \in SceneIds |-> s < MaxScenes]}

\* The pipeline while every fetch of the video succeeds: processVideo,
\* cancelJob, retryJob, cleanup and the events.
NextFetchOk ==
  \/ OnMessage
  \/ \E i \in 1..Len(conts) : ResumeStepComplete(i)
  \/ \E j \in JobIds : ProcessVideo(j)
  \/ \E j \in JobIds : CancelJob(j)
  \/ \E j \in JobIds : RetryJob(j)
  \/ Cleanup
  \/ \E f \in BagToSet(fetches) : FetchResolve(f)
  \/ \E r \in BagToSet(atWorker) : WorkerProgress(r)
  \/ \E r \in BagToSet(atWorker) : WorkerComplete(r)
  \/ \E r \in BagToSet(atWorker) : WorkerError(r)

SpecFetchOk == Init /\ [][NextFetchOk]_vars

\* The pipeline, fetches failing or not.
NextPipeline ==
  \/ NextFetchOk
  \/ \E f \in BagToSet(fetches) : FetchReject(f)

SpecPipeline == Init /\ [][NextPipeline]_vars

\* The pipeline and the public generateClipsForJob.
Next ==
  \/ NextPipeline
  \/ /\ ClipBacklog <= MaxClipBacklog
     /\ \E j \in JobIds, scenes \in SceneLists, platforms \in PlatformLists :
          GenerateClipsForJob(j, scenes, platforms)

Spec == Init /\ [][Next]_vars

\* The pipeline with the handshake's timers, an error event of the worker
\* that costs no request, and the processVideo calls that throw.  The timers
\* are setTimeout callbacks: each runs once its delay has passed.
NextHandshake ==
  \/ NextPipeline
  \/ HandshakeTimer1
  \/ HandshakeTimer2
  \/ WorkerPong
  \/ WorkerOnError(EmptyBag)
  \/ ProcessVideoFails

SpecHandshake ==
  Init /\ [][NextHandshake]_vars /\ WF_vars(HandshakeTimer1) /\ WF_vars(HandshakeTimer2)

\* The same with a worker that crashes while it works on a request.
NextCrash ==
  \/ NextHandshake
  \/ \E r \in BagToSet(atWorker) : WorkerOnError(One(r))

SpecCrash == Init /\ [][NextCrash]_vars

\* detectScenes with every analyzer enabled and the default weights, for any
\* report of the analyzers and any of the other settings.
Durations == {13, 30}
DetectConfigs ==
  [enabled : {MethodSet}, weight : {DefaultWeights}, minSceneDuration : {2, 5},
   maxScenes : {1, 15}, contextual : BOOLEAN]
InitDetectScenes ==
  /\ Constructed
  /\ call \in {DetectionCall(raw, config, duration, modelLoaded) :
                 raw \in RawResults, config \in DetectConfigs, duration \in Durations,
                 modelLoaded \in BOOLEAN}
SpecDetectScenes == InitDetectScenes /\ [][DetectScenes]_vars

\* The fusion for any choice of enabled analyzers and of weights.
EnabledSets == {MethodSet} \cup {{m} : m \in MethodSet}
FusionConfigs ==
  [enabled : EnabledSets, weight : {DefaultWeights, CustomWeights}, minSceneDuration : {5},
   maxScenes : {15}, contextual : {FALSE}]
InitFusion ==
  /\ Constructed
  /\ call \in {DetectionCall(raw, config, 30, FALSE) :
                 raw \in RawResults, config \in FusionConfigs}
SpecFusion == InitFusion /\ [][DetectScenes]_vars

\* The pure functions of ClipGenerator, each called once on any input.
InitClipGenerator == Constructed /\ call \in ClipGeneratorCalls
NextClipGenerator ==
  \/ CalculateOptimalDuration
  \/ CalculateQualityScore
SpecClipGenerator == InitClipGenerator /\ [][NextClipGenerator]_vars

\* VideoProcessingModule: one trimVideo or splitVideo call on the constructed
\* module, and cleanup().
InitModule == Constructed /\ call \in ModuleCalls
NextModule ==
  \/ TrimVideo
  \/ SplitVideo
  \/ ArrayBufferResolved
  \/ ModuleCleanup
SpecModule == InitModule /\ [][NextModule]_vars

\* ClipGenerator.generateClipsFromScenes, called once; every step that is
\* possible is taken in the end (the event loop runs every continuation, and
\* each composition is assumed to end).
InitGenerateClips == Constructed /\ call \in GenerateClipsCalls
NextGenerateClips ==
  \/ StartBatch
  \/ \E t \in TaskPairs(call) : ComposeSucceeds(t)
  \/ \E t \in TaskPairs(call) : ComposeFails(t)
  \/ BatchSettled
SpecGenerateClips ==
  /\ InitGenerateClips
  /\ [][NextGenerateClips]_vars
  /\ WF_vars(NextGenerateClips)

\* The module with its worker: the worker's messages are posted and handled,
\* and the continuations of the calls are run, whenever they can be.
NextModuleLive ==
  \/ NextModule
  \/ ModuleWorker
  \/ HandleWorkerMessage
SpecModuleLive ==
  /\ InitModule
  /\ [][NextModuleLive]_vars
  /\ WF_vars(ModuleWorker)
  /\ WF_vars(HandleWorkerMessage)
  /\ WF_vars(ArrayBufferResolved)

\* generateOptimizedClip, called once on any scene and platform.
InitOptimizedClip == Constructed /\ call \in OptimizedClipCalls
SpecOptimizedClip == InitOptimizedClip /\ [][GenerateOptimizedClip]_vars

\* ==================================================================== claims
Detect(job) == job.steps[1]
Generate(job) == job.steps[2]
Terminal(clip) == clip.status \in {"completed", "failed"}
StepsCompleted(job) == \A i \in 1..Len(job.steps) : job.steps[i].status = "completed"
\* The job object j is left as it is and nothing is dispatched.
NoEffect(j) ==
  /\ jobObjs'[j] = jobObjs[j]
  /\ fetches' = fetches
  /\ atWorker' = atWorker
\* A clip task of the job is outstanding: its video is being fetched, the
\* worker holds its request, or a message about it waits to be dispatched.
ClipTaskOutstanding(job) ==
  \/ \E f \in BagToSet(fetches) : f.kind = "generateClip" /\ f.job = job.id
  \/ \E r \in BagToSet(atWorker) : FindClip(job.clips, r.jobId) # 0
  \/ \E i \in 1..Len(fromWorker) : FindClip(job.clips, fromWorker[i].stepId) # 0

\* C1: for a job with at least one scene, generate-clips is completed only when
\* every clip is completed or failed; and once the reply of the last
\* outstanding clip task has been handled (the job being neither cancelled nor
\* failed) every clip is completed or failed, generate-clips is completed and
\* the job is completed.
C1_GenerateClipsCompletion ==
  \A j \in jobs :
    LET job == jobObjs[j] IN
    Len(job.scenes) > 0 =>
      /\ Generate(job).status = "completed" =>
           \A k \in 1..Len(job.clips) : Terminal(job.clips[k])
      /\ (Len(job.clips) > 0 /\ job.status \notin {"cancelled", "failed"}
            /\ ~ClipTaskOutstanding(job)) =>
           /\ \A k \in 1..Len(job.clips) : Terminal(job.clips[k])
           /\ Generate(job).status = "completed"
           /\ job.status = "completed"

\* C2: a worker message for a cancelled job is discarded: handling it leaves
\* the job as it is and starts nothing.
C2_CancelledJobFenced ==
  [][\A j \in jobs :
       (jobObjs[j].status = "cancelled" /\ fromWorker # <<>>
          /\ Head(fromWorker).jobId = j /\ OnMessage)
       => NoEffect(j)]_vars

\* C3: the worker's error reply for one clip task marks exactly that clip
\* failed and leaves the other clips, the steps and the job's status and error
\* as they are.
C3_ClipErrorIsolated ==
  [][\A j \in jobs : \A k \in 1..Len(jobObjs[j].clips) :
       (fromWorker # <<>> /\ Head(fromWorker).type = "error"
          /\ Head(fromWorker).stepId = jobObjs[j].clips[k].id /\ OnMessage)
       => /\ jobObjs'[j].clips = [jobObjs[j].clips EXCEPT ![k].status = "failed"]
          /\ jobObjs'[j].steps = jobObjs[j].steps
          /\ jobObjs'[j].status = jobObjs[j].status
          /\ jobObjs'[j].error = jobObjs[j].error]_vars

\* C4: a job is completed if and only if both of its steps are completed.
C4_CompletionLaw ==
  \A j \in DOMAIN jobObjs :
    jobObjs[j].status = "completed" <=> StepsCompleted(jobObjs[j])

\* C5: the status moves along queued -> processing -> {completed, failed,
\* cancelled}; completed and cancelled are final, and failed changes only to
\* processing and only by retryJob.
C5_StatusTransitions ==
  [][\A j \in DOMAIN jobObjs :
       LET a == jobObjs[j].status
           b == jobObjs'[j].status
       IN /\ a \in {"completed", "cancelled"} => b = a
          /\ (a = "failed" /\ b # a) => (b = "processing" /\ RetryJob(j))
          /\ a = "processing" => b \in {"processing", "completed", "failed", "cancelled"}
          /\ a = "queued" => b \in {"queued", "processing"}]_vars

\* The clip list holds exactly one entry per pair of a scene of S and a
\* platform of P, and nothing else.
OnePerPair(clips, S, P) ==
  /\ Len(clips) = Cardinality(S) * Cardinality(P)
  /\ \A s \in S, p \in P :
       Cardinality({k \in 1..Len(clips) : clips[k].sceneId = s /\ clips[k].platform = p}) = 1
  /\ \A k \in 1..Len(clips) : clips[k].sceneId \in S /\ clips[k].platform \in P

SceneSet(job) == {job.scenes[i] : i \in 1..Len(job.scenes)}
\* The pipeline has fanned out for job j: its clip list changed and fetches
\* were started.
PipelineFanOut(j) ==
  jobObjs'[j].clips # jobObjs[j].clips /\ fetches' # fetches
\* generateClipsForJob has rebuilt the clip list of job j: the list changed or
\* requests were posted, without any fetch.
DirectFanOut(j) ==
  /\ worker' = worker
  /\ fromWorker' = fromWorker
  /\ fetches' = fetches
  /\ jobObjs'[j].clips # jobObjs[j].clips \/ atWorker' # atWorker
\* The platforms the clips of a list are made for.
PlatformsOf(clips) == {clips[k].platform : k \in 1..Len(clips)}

ClipFetchStarted(j) ==
  \E f \in BagToSet(fetches') :
    /\ f.kind = "generateClip" /\ f.job = j
    /\ (BagIn(f, fetches) => fetches'[f] > fetches[f])
\* A fetch of job j started.
FetchStarted(j) ==
  \E f \in BagToSet(fetches') :
    /\ f.job = j
    /\ (BagIn(f, fetches) => fetches'[f] > fetches[f])
\* The clip tasks in flight (fetching, at the worker, replied) belong to jobs
\* whose detect-scenes step is completed.
ClipTasksAfterDetect ==
  /\ \A f \in BagToSet(fetches) :
       f.kind = "generateClip" => Detect(jobObjs[f.job]).status = "completed"
  /\ \A r \in BagToSet(atWorker) :
       r.kind = "generateClip" =>
         \E j \in DOMAIN jobObjs :
           FindClip(jobObjs[j].clips, r.jobId) # 0 /\ Detect(jobObjs[j]).status = "completed"

\* C7: the steps run in sequence: generate-clips is active or completed, and a
\* clip task is in flight, only when detect-scenes is completed; at most one
\* step is active; a completed step stays completed.
C7_SequentialSteps ==
  /\ [](\A j \in DOMAIN jobObjs :
          /\ Generate(jobObjs[j]).status \in {"active", "completed"} =>
               Detect(jobObjs[j]).status = "completed"
          /\ CountSteps(jobObjs[j].steps, "active") <= 1)
  /\ []ClipTasksAfterDetect
  /\ [][\A j \in DOMAIN jobObjs :
          /\ \A i \in 1..Len(jobObjs[j].steps) :
               jobObjs[j].steps[i].status = "completed" =>
                 jobObjs'[j].steps[i].status = "completed"
          /\ ClipFetchStarted(j) => Detect(jobObjs'[j]).status = "completed"]_vars

\* detect-scenes is completed, generate-clips is active and a clip task is at
\* the worker.
W_C7 ==
  \E j \in DOMAIN jobObjs :
    /\ Detect(jobObjs[j]).status = "completed"
    /\ Generate(jobObjs[j]).status = "active"
    /\ \E r \in BagToSet(atWorker) :
         r.kind = "generateClip" /\ FindClip(jobObjs[j].clips, r.jobId) # 0

\* The step is failed with its error recorded and so is the job.
StepFailed(job, stepId) ==
  LET i == FindStep(job.steps, stepId) IN
  /\ i # 0
  /\ job.steps[i].status = "failed"
  /\ job.steps[i].error # NoError
  /\ job.status = "failed"
  /\ job.error = job.steps[i].error

\* C8: when the worker replies with an error for a step, when the fetch of the
\* step's input fails (or posting the request throws), or when the worker is
\* unavailable as the step is started, the step and the job are failed with the
\* error recorded; and while the job is failed nothing but retryJob starts a
\* step or a fetch for it.
C8_StepFailureFailsJob ==
  [][\A j \in DOMAIN jobObjs :
       /\ (j \in jobs /\ fromWorker # <<>> /\ Head(fromWorker).type = "error"
             /\ Head(fromWorker).jobId = j
             /\ FindStep(jobObjs[j].steps, Head(fromWorker).stepId) # 0 /\ OnMessage)
          => StepFailed(jobObjs'[j], Head(fromWorker).stepId)
       /\ \A f \in BagToSet(fetches) :
            (f.kind = "detectScenes" /\ f.job = j
               /\ (FetchReject(f) \/ (worker = "null" /\ FetchResolve(f))))
            => StepFailed(jobObjs'[j], f.stepId)
       /\ \A i \in 1..Len(conts) :
            (conts[i].job = j /\ (worker = "null" \/ ~workerReady)
               /\ FindStepWithStatus(jobObjs[j].steps, "pending") # 0
               /\ ResumeStepComplete(i))
            => StepFailed(jobObjs'[j],
                          jobObjs[j].steps[FindStepWithStatus(jobObjs[j].steps, "pending")].id)
       /\ (jobObjs[j].status = "failed" /\ ~RetryJob(j))
          => /\ \A i \in 1..Len(jobObjs[j].steps) :
                  jobObjs'[j].steps[i].status = "active" =>
                    jobObjs[j].steps[i].status = "active"
             /\ ~FetchStarted(j)]_vars

\* The number of pending detectScenes fetches of job j.
DetectFetches(F, j) ==
  LET S == {f \in BagToSet(F) : f.kind = "detectScenes" /\ f.job = j} IN
  IF S = {} THEN 0 ELSE BagCardinality([f \in S |-> F[f]])

\* C9: retryJob on a failed job puts the job in processing with its error
\* cleared, resets the failed steps (progress 0, no error) and only those,
\* starts the first step that is then pending, and leaves a completed step
\* completed without dispatching its work again.
C9_RetryResumes ==
  [][\A j \in jobs :
       (jobObjs[j].status = "failed" /\ RetryJob(j)) =>
         LET old == jobObjs[j]
             new == jobObjs'[j]
             R == {i \in 1..Len(old.steps) : old.steps[i].status \in {"failed", "pending"}}
             first == IF R = {} THEN 0 ELSE CHOOSE x \in R : \A y \in R : x <= y
         IN /\ new.status = "processing"
            /\ new.error = NoError
            /\ \A i \in 1..Len(old.steps) :
                 /\ old.steps[i].status = "failed" =>
                      /\ new.steps[i].progress = 0
                      /\ new.steps[i].error = NoError
                      /\ new.steps[i].status = IF i = first THEN "active" ELSE "pending"
                 /\ (old.steps[i].status # "failed" /\ i # first) =>
                      new.steps[i] = old.steps[i]
                 /\ (old.steps[i].status = "pending" /\ i = first) =>
                      new.steps[i] = [old.steps[i] EXCEPT !.status = "active"]
            /\ first = 1 => DetectFetches(fetches', j) = DetectFetches(fetches, j) + 1
            /\ first # 1 => DetectFetches(fetches', j) = DetectFetches(fetches, j)]_vars

\* A failed job, with a failed step that had made progress, for retryJob to
\* resume.
W_C9 ==
  \E j \in jobs :
    /\ jobObjs[j].status = "failed"
    /\ jobObjs[j].error # NoError
    /\ Detect(jobObjs[j]).status = "failed"
    /\ Detect(jobObjs[j]).progress > 0

\* C10: retryJob on a job that is not failed, or that has no failed step,
\* leaves the job as it is and dispatches nothing.
C10_RetryNoOp ==
  [][\A j \in jobs :
       ((jobObjs[j].status # "failed" \/ CountSteps(jobObjs[j].steps, "failed") = 0)
          /\ RetryJob(j))
       => NoEffect(j)]_vars

\* A job with a failed step whose status is not failed: it was cancelled.
W_C10 ==
  \E j \in jobs :
    /\ jobObjs[j].status = "cancelled"
    /\ Detect(jobObjs[j]).status = "failed"

\* C11: when the worker raises its error event after a successful handshake
\* while a job of the map has an active step, that step and the job are failed
\* by the handler.
ActiveStep(job) == FindStepWithStatus(job.steps, "active")
CrashWithActiveStep(j) ==
  /\ \E r \in BagToSet(atWorker) : r.jobId = j /\ WorkerOnError(One(r))
  /\ workerReadyPromise = "fulfilled"
  /\ j \in jobs
  /\ jobObjs[j].status = "processing"
  /\ ActiveStep(jobObjs[j]) # 0
C11_CrashFailsActiveStep ==
  [][\A j \in JobIds :
       CrashWithActiveStep(j) =>
         /\ jobObjs'[j].status = "failed"
         /\ jobObjs'[j].steps[ActiveStep(jobObjs[j])].status = "failed"]_vars

\* C12: the handshake is settled once and for all, as ready or as rejected:
\* when the second timer finds that no 'ready' or 'pong' was handled, the
\* promise is rejected and stays so, a later 'ready' changes nothing,
\* processVideo throws and creates no job; a job is created only under a
\* fulfilled promise; and the promise does not stay pending.
TimedOut == workerReadyResolved /\ ~workerReady
JobCreated == DOMAIN jobObjs' # DOMAIN jobObjs \/ ~(jobs' \subseteq jobs)
C12_HandshakeTimeout ==
  /\ [](workerReadyPromise = "fulfilled" => workerReady /\ workerReadyResolved)
  /\ [](TimedOut => workerReadyPromise = "rejected")
  /\ [](workerReadyPromise = "rejected" => jobs = {})
  /\ [][/\ HandshakeTimer2 /\ ~workerReady /\ ~workerReadyResolved => TimedOut'
        /\ TimedOut => TimedOut'
        /\ workerReadyPromise # "pending" => workerReadyPromise' = workerReadyPromise
        /\ JobCreated => workerReadyPromise = "fulfilled"
        /\ ProcessVideoFails /\ workerReadyPromise = "rejected" =>
             /\ jobs' = jobs /\ jobObjs' = jobObjs
             /\ processVideoError' = "Failed to initialize video processing worker"]_vars
  /\ <>(workerReadyPromise # "pending")
\* The handshake timed out, a processVideo call was refused and no job exists.
W_C12 ==
  /\ TimedOut /\ timer = 0
  /\ workerReadyPromise = "rejected"
  /\ processVideoError = "Failed to initialize video processing worker"
  /\ jobs = {} /\ fromWorker = <<>>

\* C13: the scenes detectScenes returns for a video of duration D lie within
\* [0, D], are at least minSceneDuration long, are at most maxScenes, and are
\* ordered by start time without overlap.
Returned == call.fn = "detectScenes" /\ call.done
C13_SceneInvariants ==
  Returned =>
    LET scenes == call.out.scenes IN
    /\ Len(scenes) <= call.config.maxScenes
    /\ \A k \in 1..Len(scenes) :
         /\ 0 <= scenes[k].startTime
         /\ scenes[k].startTime < scenes[k].endTime
         /\ scenes[k].endTime <= call.duration
         /\ scenes[k].endTime - scenes[k].startTime >= call.config.minSceneDuration
         /\ scenes[k].duration = scenes[k].endTime - scenes[k].startTime
    /\ \A k \in 1..(Len(scenes) - 1) :
         /\ scenes[k].startTime < scenes[k + 1].startTime
         /\ scenes[k].endTime <= scenes[k + 1].startTime
\* A call returned two scenes: three were created and two of them were merged
\* for context.
W_C13 ==
  /\ Returned
  /\ call.config.contextual /\ call.modelLoaded
  /\ call.config.maxScenes > 2
  /\ Len(call.out.refined) = 4
  /\ Len(call.out.scenes) = 2

\* C14: two pooled boundaries less than 2 s apart, with every other pooled
\* boundary at least 2 s away from both, leave exactly one boundary in the
\* fusion's output: it has the larger of the two weighted confidences and the
\* time of the boundary that has it.
Pooled == SortByTimestamp(PoolBoundaries(DetectionResults(call.raw, call.config), call.config, 1))
Near(a, b) == a.timestamp - b.timestamp < mergeWindow /\ b.timestamp - a.timestamp < mergeWindow
IsolatedPair(pooled, i, k) ==
  /\ i < k
  /\ Near(pooled[i], pooled[k])
  /\ \A n \in 1..Len(pooled) :
       n \notin {i, k} => ~Near(pooled[n], pooled[i]) /\ ~Near(pooled[n], pooled[k])
C14_MergeLaw ==
  Returned =>
    \A i, k \in 1..Len(Pooled) :
      IsolatedPair(Pooled, i, k) =>
        LET a == Pooled[i]
            b == Pooled[k]
            out == call.out.combined
            kept == {n \in 1..Len(out) : out[n].timestamp \in {a.timestamp, b.timestamp}}
        IN /\ Cardinality(kept) = 1
           /\ \A n \in kept :
                /\ out[n].confidence >= a.confidence /\ out[n].confidence >= b.confidence
                /\ out[n] \in {a, b}
                /\ a.confidence > b.confidence => out[n] = a
                /\ b.confidence > a.confidence => out[n] = b
\* Two boundaries one second apart were pooled, the later one with the higher
\* confidence, and the fusion returned the later one alone.
W_C14 ==
  /\ Returned
  /\ Len(Pooled) = 2
  /\ IsolatedPair(Pooled, 1, 2)
  /\ Pooled[1].timestamp < Pooled[2].timestamp
  /\ Pooled[1].confidence < Pooled[2].confidence
  /\ call.out.combined = <<Pooled[2]>>

\* C15 as stated: with a single analyzer enabled the fusion returns exactly
\* that analyzer's boundaries, each confidence multiplied by the configured
\* weight.
OnlyEnabled(m) == Returned /\ call.config.enabled = {m}
RawOf(m) == SeqOfBoundaries({b \in call.raw : b.method = m})
Scaled(seq, w) == [k \in 1..Len(seq) |-> [seq[k] EXCEPT !.confidence = (seq[k].confidence * w) \div 10]]
C15_WeightIsolation ==
  \A m \in MethodSet :
    OnlyEnabled(m) => call.out.combined = Scaled(RawOf(m), call.config.weight[m])
\* C15 amended: with a single analyzer enabled, every boundary the fusion
\* returns is one of that analyzer's boundaries with its confidence multiplied
\* by the analyzer's weight, none is returned twice, and all of them are
\* returned when no two of them are less than 2 s apart; the boundaries of the
\* disabled analyzers are not returned.
C15_WeightIsolationUpToMerge ==
  \A m \in MethodSet :
    OnlyEnabled(m) =>
      LET scaled == Scaled(RawOf(m), WeightOf(call.config, m))
          out == call.out.combined
      IN /\ \A n \in 1..Len(out) : \E k \in 1..Len(scaled) : out[n] = scaled[k]
         /\ \A n \in 1..(Len(out) - 1) : out[n].timestamp < out[n + 1].timestamp
         /\ scaled # <<>> => out # <<>>
         /\ (\A i, k \in 1..Len(scaled) : i # k => ~Near(scaled[i], scaled[k])) => out = scaled
\* Only faceDetection is enabled; it and another analyzer each reported a
\* boundary, and the fusion returned faceDetection's alone, weighted by 1.2.
W_C15 ==
  /\ OnlyEnabled("faceDetection")
  /\ call.config.weight = DefaultWeights
  /\ \E b \in call.raw : b.method # "faceDetection"
  /\ Len(call.out.combined) = 1
  /\ call.out.combined[1].method = "faceDetection"
  /\ call.out.combined[1].confidence = 60

\* C16: every boundary the fusion returns has a confidence between 0 and 1.
C16_ConfidenceInUnitRange ==
  Returned =>
    \A n \in 1..Len(call.out.combined) :
      /\ 0 <= call.out.combined[n].confidence
      /\ call.out.combined[n].confidence <= 100

\* C17: calculateOptimalDuration returns preferredLength * (0.7 + 0.6 *
\* viralPotential) clamped to [5, min(scene.duration, maxDuration)], the upper
\* limit winning; for a scene of 15 s, preferredLength 30, maxDuration 60 and
\* viralPotential 0.8 it returns 15.
Clamp(x, lo, hi) == Min(Max(x, lo), hi)
C17_OptimalDuration ==
  call.fn = "calculateOptimalDuration" /\ call.done /\ call.platform.preferredLength > 0 =>
    /\ call.out = Clamp(call.platform.preferredLength * (70 + 6 * call.viralPotential), 500,
                        Min(call.scene.duration, call.platform.maxDuration) * 100)
    /\ call.scene.duration = 15 /\ call.platform.preferredLength = 30
         /\ call.platform.maxDuration = 60 /\ call.viralPotential = 8 => call.out = 1500

\* C19: calculateQualityScore of factors in [0,1] lies in [0,1], and is the sum
\* of the factors weighted by 0.25, 0.20, 0.15, 0.15, 0.15, 0.10, which add up
\* to 1.
C19_QualityScoreBounded ==
  call.fn = "calculateQualityScore" /\ call.done =>
       /\ qualityWeights.hookStrength + qualityWeights.visualAppeal + qualityWeights.pacing
            + qualityWeights.contentDensity + qualityWeights.emotionalImpact
            + qualityWeights.viralPotential = 100
       /\ 0 <= call.out /\ call.out <= 1000
       /\ call.out = 25 * call.factors.hookStrength + 20 * call.factors.visualAppeal
                     + 15 * call.factors.pacing + 15 * call.factors.contentDensity
                     + 15 * call.factors.emotionalImpact + 10 * call.factors.viralPotential
\* The score of factors that are all 1 was returned, and is 1.
W_C19 ==
  /\ call.fn = "calculateQualityScore" /\ call.done
  /\ call.factors.hookStrength = 10 /\ call.factors.viralPotential = 10
  /\ call.factors.pacing = 10 /\ call.factors.visualAppeal = 10
  /\ call.factors.contentDensity = 10 /\ call.factors.emotionalImpact = 10
  /\ call.out = 1000

\* C18: while a job is processing, job.progress is (completed steps + progress
\* of the active step / 100) / 2 * 100, the active step counting 0 when there
\* is none, and lies in [0,100]; also right after a step completes and right
\* after retryJob.
AggregateProgress(job) ==
  LET a == FindStepWithStatus(job.steps, "active")
  IN (CountSteps(job.steps, "completed") * 100 + (IF a # 0 THEN job.steps[a].progress ELSE 0))
       \div Len(job.steps)
\* No handleStepComplete call of the job is suspended at an await.
Settled(j) == \A i \in 1..Len(conts) : conts[i].job # j
C18_AggregateProgress ==
  \A j \in jobs :
    jobObjs[j].status = "processing" /\ Settled(j) =>
      /\ jobObjs[j].progress = AggregateProgress(jobObjs[j])
      /\ 0 <= jobObjs[j].progress /\ jobObjs[j].progress <= 100

\* C20: trimVideo with startTime < 0 or endTime <= startTime, and splitVideo
\* with no segment or with a segment of such a range, fail on the check of
\* their arguments: no message is posted to the worker and no pending
\* operation is registered for them.
InvalidCall ==
  \/ call.fn = "trimVideo" /\ (call.startTime < 0 \/ call.endTime <= call.startTime)
  \/ call.fn = "splitVideo"
       /\ \/ call.timestamps = <<>>
          \/ \E i \in 1..Len(call.timestamps) :
               call.timestamps[i].start < 0
                 \/ call.timestamps[i].end <= call.timestamps[i].start
C20_InvalidRangeNotDispatched ==
  InvalidCall /\ call.at # "called" =>
    /\ call.at = "rejected"
    /\ call.error \in {"Invalid time range", "No timestamps provided", "Invalid timestamp range"}
    /\ \A i \in 1..Len(videoProcessor.posted) : videoProcessor.posted[i].type # call.fn
    /\ videoProcessor.pendingOperations = {}
\* A trimVideo call with an empty range was rejected.
W_C20 ==
  /\ call.fn = "trimVideo" /\ call.startTime = 5 /\ call.endTime = 5
  /\ call.at = "rejected"

\* C21: every progress, complete or error reply of the worker to a request the
\* orchestrator dispatched for a job carries a jobId that is a key of the job
\* map while that job is in the map, so handleWorkerMessage finds the job.
DispatchedFor(m, j) == m.jobId = j \/ FindClip(jobObjs[j].clips, m.jobId) # 0
C21_RepliesRouted ==
  \A i \in 1..Len(fromWorker) :
    fromWorker[i].type \in {"progress", "complete", "error"} =>
      \A j \in jobs : DispatchedFor(fromWorker[i], j) => fromWorker[i].jobId \in jobs

\* C22: in generateClipsFromScenes the compositions of different (scene,
\* platform) pairs are independent: when one pair fails, the call still returns
\* the clips of all other pairs, later batches included.
Finished == call.at \in {"returned", "thrown"} /\ InFlight(call) = {}
C22_SiblingClipsReturned ==
  call.fn = "generateClipsFromScenes" /\ Finished /\ call.failing # {}
    /\ TaskPairs(call) \ call.failing # {} =>
    /\ call.at = "returned"
    /\ \A t \in TaskPairs(call) \ call.failing :
         \E k \in 1..Len(call.out) : call.out[k] = t

\* C23: with a batchSize option of B >= 1, at most B composition tasks are in
\* flight at any moment.
C23_AtMostBatchSizeInFlight ==
  call.fn = "generateClipsFromScenes" /\ call.options.batchSize >= 1 =>
    Cardinality(InFlight(call)) <= call.options.batchSize

\* C26: generateClipsFromScenes returns or throws for every input, also for
\* scenes without platforms and for a batchSize option of 0.
C26_GenerateClipsTerminates ==
  <>(call.at \in {"returned", "thrown"})

\* C24: after construction, with a worker that answers every init request
\* with success, the module becomes ready in the end (unless cleanup() is
\* called first), so that later operations are posted to the worker.
C24_ModuleBecomesReady ==
  <>(isReady(videoProcessor) \/ videoProcessor.worker = "null")

\* C27: the list refineBoundaries returns starts with the synthetic boundary
\* at 0 and ends with the synthetic boundary at the video's duration D, so the
\* scenes built from it (when maxScenes does not cut them) start at 0, are
\* contiguous and end at D.
C27_RefinedSpansVideo ==
  Returned =>
    LET refined == call.out.refined
        created == CreateScenes(refined, 1, <<>>, call.config, call.duration)
    IN /\ refined[1] = Synthetic(0, "start")
       /\ refined[Len(refined)] = Synthetic(call.duration, "end")
       /\ Len(refined) - 1 <= call.config.maxScenes =>
            /\ Len(created) = Len(refined) - 1
            /\ created[1].startTime = 0
            /\ \A k \in 1..(Len(created) - 1) : created[k].endTime = created[k + 1].startTime
            /\ created[Len(created)].endTime = call.duration

\* C28: the boundaries the merge step of the fusion returns have strictly
\* increasing timestamps, consecutive ones at least 2 s apart, and each of them
\* has a confidence at least that of every pooled boundary discarded in its
\* favour: the pooled list, sorted by time, splits into consecutive runs, one
\* for each returned boundary, which is a member of its run and has the highest
\* confidence in it.
RunsOf(pooled, out) ==
  {cut \in [0..Len(out) -> 0..Len(pooled)] :
     /\ cut[0] = 0
     /\ cut[Len(out)] = Len(pooled)
     /\ \A n \in 1..Len(out) : cut[n - 1] < cut[n]}
C28_MergeOutputSeparated ==
  Returned =>
    LET out == call.out.combined IN
    /\ \A n \in 1..(Len(out) - 1) : out[n + 1].timestamp - out[n].timestamp >= mergeWindow
    /\ \E cut \in RunsOf(Pooled, out) :
         \A n \in 1..Len(out) :
           /\ \E k \in (cut[n - 1] + 1)..cut[n] : Pooled[k] = out[n]
           /\ \A k \in (cut[n - 1] + 1)..cut[n] : out[n].confidence >= Pooled[k].confidence
\* Of two pooled boundaries 1 s apart the later one had the lower confidence
\* and was discarded.
W_C28 ==
  /\ Returned
  /\ Len(Pooled) = 2
  /\ Pooled[2].timestamp - Pooled[1].timestamp = 1
  /\ Pooled[1].confidence > Pooled[2].confidence
  /\ call.out.combined = <<Pooled[1]>>

\* C30: when preserveContext or maintainNarrativeFlow is set, detectScenes
\* returns no two adjacent scenes that last less than 20 s together, share a
\* speaker and have the same motionLevel: such pairs have been merged.
C30_ContextPairsMerged ==
  Returned /\ call.config.contextual =>
    \A k \in 1..(Len(call.out.scenes) - 1) :
      ~shouldMergeForContext(call.out.scenes[k], call.out.scenes[k + 1])

\* C29: the window generateOptimizedClip passes to trimVideo starts at
\* max(0, scene.startTime - 1) and ends at start + optimalDuration; capping the
\* end at scene.endTime + 1 never changes it, and 0 <= start < end.
C29_TrimWindow ==
  call.fn = "generateOptimizedClip" /\ call.done =>
    /\ call.out.startTime = Max(0, (call.scene.startTime - 1) * 100)
    /\ call.out.endTime = call.out.startTime + call.out.optimalDuration
    /\ call.out.startTime + call.out.optimalDuration <= (call.scene.endTime + 1) * 100
    /\ 0 <= call.out.startTime
    /\ call.out.startTime < call.out.endTime
\* A window for a scene starting at 0 that is as long as the whole scene: its
\* end is 1 s below the cap.
W_C29 ==
  /\ call.fn = "generateOptimizedClip" /\ call.done
  /\ call.scene.startTime = 0
  /\ call.out.startTime = 0
  /\ call.out.endTime = call.scene.endTime * 100

====
